---- MODULE Spec2Model ----
(***************************************************************************)
(* Image Grid Cutter (app-picfarto): the grid editor (GridCanvas,          *)
(* GridControls, Home), the partition calculator cutImageWithGridLines,    *)
(* the server route POST /api/cut-image and the archive packager.          *)
(*                                                                         *)
(* Numbers.  A line position is a JavaScript number; the defaults are      *)
(* (i / rows) * height, which need not be whole pixels.  A position, a     *)
(* pointer coordinate and every length derived from them is held as an     *)
(* integer count of 1/Scale pixel, Scale being a common multiple of every  *)
(* row/column count of the model, so that the arithmetic is exact.         *)
(* Image dimensions (img.width, metadata.width) are whole pixels.          *)
(* Line indices are the 0-based indices of the source; line k of the       *)
(* source is element k+1 of the sequence.                                  *)
(***************************************************************************)
EXTENDS Integers, Sequences, FiniteSets, TLC

\* ---------------------------------------------------------------- bounds
\* largest row / column count the sliders are moved to (the slider allows 10)
MaxGrid == 3

\* ------------------------------------------------------ program constants
\* Slider min={2}
MinGrid == 2
\* let minDistance = 10
Threshold == 10
\* useState<number | null>(null): the value null of activeLine / hoveredLine
null == -2
\* let closestLine = -1 / let nearestLine = -1
NoLine == -1
\* useState(3) for rows and columns in Home
InitialRows == 3
InitialColumns == 3

RECURSIVE Factorial(_)
Factorial(n) == IF n <= 1 THEN 1 ELSE n * Factorial(n - 1)

\* sub-pixel resolution: positions are counted in 1/Scale pixel
Scale == Factorial(MaxGrid)

\* the images a user uploads: natural <<width, height>> in pixels
Images == << <<300, 240>>, <<200, 300>> >>
\* the images uploaded while the grid editor alone is explored
EditorImages == {1}

\* pointer positions in raster pixels <<x, y>>, i.e. after
\* (e.clientX - rect.left) * (canvas.width / rect.width)
Pointers ==
  { <<500, -50>>, <<-1000, 250>>, <<105, 155>>, <<100, 80>> }

VARIABLES
  \* Home (src/app/page.tsx)
  imageUrl,        \* 0 = null, k = the object URL of Images[k]
  rows, columns,
  homeGridLines,   \* Home's gridLines, written by handleGridLinesChange
  homeImageSize,   \* Home's imageSize
  isProcessing,
  downloadReady,
  gridImages,
  op,              \* the cut started by handleClientSideCut / handleServerSideCut:
                   \* its state and what its closure captured
  alert,           \* the text the last step passed to alert(), "" if none
  \* GridCanvas (src/components/ui/label.tsx)
  imageSize,
  gridLines,
  activeLine,
  hoveredLine,
  imageLoaded,
  cursor,          \* canvas.style.cursor
  \* the last event handled: [kind, x, y]; x, y is the pointer in 1/Scale
  \* pixel, and for "rows", "columns", "load" and "resetGrid" x is the number
  \* of canvas lines that were off their default position when the event
  \* arrived
  lastEvent,
  \* one call of an extraction routine (src/app/page.tsx, lines 309-587)
  call,            \* the routine and its arguments
  pc,              \* where the call is
  drawn,           \* the source rectangles of the drawImage calls so far
  images,          \* the data URLs the cut resolved with
  pending,         \* server: the cells whose extract promise is not settled
  zip,             \* the JSZip object: file name -> content
  saved,           \* client: the file handed to saveAs
  response         \* server: the response returned

editorVars == << imageUrl, rows, columns, homeGridLines, homeImageSize,
                 imageSize, gridLines, activeLine, hoveredLine, imageLoaded,
                 cursor, lastEvent >>
cutVars == << call, pc, drawn, images, pending, zip, saved, response >>
pageVars == << isProcessing, downloadReady, gridImages, op >>
routeVars == << call, pc, drawn, images, pending, zip, response >>
vars == << editorVars, pageVars, alert, cutVars >>

homeVars == << imageUrl, rows, columns, homeGridLines, homeImageSize >>
canvasVars == << imageSize, gridLines, activeLine, hoveredLine, imageLoaded, cursor >>

Abs(n) == IF n < 0 THEN -n ELSE n
Min(a, b) == IF a < b THEN a ELSE b
Max(a, b) == IF a > b THEN a ELSE b

Event(kind, x, y) == [kind |-> kind, x |-> x, y |-> y]

\* no file was handed to the browser
NoFile == [name |-> "", body |-> << >>]

\* a step of the page that neither alerts nor downloads
Quiet ==
  /\ alert' = ""
  /\ saved' = NoFile

\* ------------------------------------------------------------ Grid model
\* the grid regeneration loops: rows-1 horizontal lines, then columns-1
\* vertical lines, line i at (i / n) * size
DefaultLines(r, c, width, height) ==
  [k \in 1..((r - 1) + (c - 1)) |->
     IF k <= r - 1
       THEN [position |-> ((k * Scale) \div r) * height, isHorizontal |-> TRUE]
       ELSE [position |-> (((k - (r - 1)) * Scale) \div c) * width,
             isHorizontal |-> FALSE]]

\* a search in which a line at the same distance replaces the candidate
RECURSIVE ScanLines_LastWins(_, _, _, _, _, _)
ScanLines_LastWins(lines, x, y, k, minDistance, closest) ==
  IF k >= Len(lines) THEN closest
  ELSE LET line == lines[k + 1]
           distance == IF line.isHorizontal THEN Abs(y - line.position)
                       ELSE Abs(x - line.position)
       IN IF distance <= minDistance
            THEN ScanLines_LastWins(lines, x, y, k + 1, distance, k)
            ELSE ScanLines_LastWins(lines, x, y, k + 1, minDistance, closest)

\* the nearest-line search of handleMouseDown / handleMouseMove: forEach in
\* index order, a line replaces the candidate only when strictly nearer
RECURSIVE ScanLines(_, _, _, _, _, _)
ScanLines(lines, x, y, k, minDistance, closest) ==
  IF k >= Len(lines) THEN closest
  ELSE LET line == lines[k + 1]
           distance == IF line.isHorizontal THEN Abs(y - line.position)
                       ELSE Abs(x - line.position)
       IN IF distance < minDistance
            THEN ScanLines(lines, x, y, k + 1, distance, k)
            ELSE ScanLines(lines, x, y, k + 1, minDistance, closest)

\* the search without the detection threshold
ClosestLine_NoThreshold(lines, x, y) ==
  ScanLines(lines, x, y, 0, 1000000 * Scale, NoLine)

ClosestLine(lines, x, y) == ScanLines(lines, x, y, 0, Threshold * Scale, NoLine)

\* Clamp without the upper bound
Clamp_NoUpper(v, bound) == Max(0, v)

\* Math.max(0, Math.min(v, bound)), bound in pixels
Clamp(v, bound) == Max(0, Min(v, bound * Scale))

\* an update that pushes the later lines of the same axis ahead of the
\* dragged line
UpdatedLines_Cascade(lines, k, x, y, size) ==
  LET line == lines[k + 1]
      newPosition == IF line.isHorizontal THEN Clamp(y, size.height)
                     ELSE Clamp(x, size.width)
  IN [j \in 1..Len(lines) |->
        IF j = k + 1 THEN [line EXCEPT !.position = newPosition]
        ELSE IF j > k + 1 /\ lines[j].isHorizontal = line.isHorizontal
                /\ lines[j].position < newPosition
          THEN [lines[j] EXCEPT !.position = newPosition]
          ELSE lines[j]]

\* const updatedLines = [...gridLines]; updatedLines[activeLine] = {...}
UpdatedLines(lines, k, x, y, size) ==
  LET line == lines[k + 1]
      newPosition == IF line.isHorizontal THEN Clamp(y, size.height)
                     ELSE Clamp(x, size.width)
  IN [lines EXCEPT ![k + 1] = [line EXCEPT !.position = newPosition]]

CursorFor(lines, nearestLine) ==
  IF nearestLine # NoLine
    THEN (IF lines[nearestLine + 1].isHorizontal THEN "ns-resize" ELSE "ew-resize")
    ELSE "default"

\* the lines of the canvas that are not where the regeneration put them
CustomLines ==
  IF imageSize.width = 0 \/ imageSize.height = 0 THEN {}
  ELSE { k \in 1..Len(gridLines) :
           gridLines[k] # DefaultLines(rows, columns, imageSize.width,
                                       imageSize.height)[k] }

\* --------------------------------------------------------------- initial
\* a GridCanvas that was just mounted (or is not mounted)
CanvasInit ==
  /\ imageSize = [width |-> 0, height |-> 0]
  /\ gridLines = << >>
  /\ activeLine = null
  /\ hoveredLine = null
  /\ imageLoaded = FALSE
  /\ cursor = ""

\* Home as constructed: no image, 3 x 3
EditorInit ==
  /\ imageUrl = 0
  /\ rows = InitialRows
  /\ columns = InitialColumns
  /\ homeGridLines = << >>
  /\ homeImageSize = [width |-> 0, height |-> 0]
  /\ CanvasInit
  /\ lastEvent = Event("init", 0, 0)

\* no extraction routine was called
NoCall ==
  /\ call = [fn |-> "none"]
  /\ pc = "idle"
  /\ drawn = << >>
  /\ images = << >>
  /\ pending = {}
  /\ zip = << >>
  /\ saved = NoFile
  /\ response = [status |-> 0, error |-> "", body |-> << >>]

\* Home as constructed: nothing cut, no cut running
PageInit ==
  /\ isProcessing = FALSE
  /\ downloadReady = FALSE
  /\ gridImages = << >>
  /\ op = [state |-> "none"]
  /\ alert = ""

Init == EditorInit /\ PageInit /\ NoCall

\* --------------------------------------------------------------- actions
\* an upload that leaves the download offered
handleImageUpload_KeepReady(img) ==
  /\ imageUrl = 0
  /\ imageUrl' = img
  /\ imageSize' = [width |-> 0, height |-> 0]
  /\ gridLines' = << >>
  /\ activeLine' = null
  /\ hoveredLine' = null
  /\ imageLoaded' = FALSE
  /\ cursor' = ""
  /\ lastEvent' = Event("upload", 0, 0)
  /\ gridImages' = << >>
  /\ UNCHANGED << isProcessing, op, downloadReady >>
  /\ UNCHANGED routeVars
  /\ Quiet
  /\ UNCHANGED << rows, columns, homeGridLines, homeImageSize >>

\* Home.handleImageUpload, reached from ImageUploader, which is rendered
\* only while imageUrl is null; the editor (GridCanvas, GridControls) mounts
handleImageUpload(img) ==
  /\ imageUrl = 0
  /\ imageUrl' = img
  /\ imageSize' = [width |-> 0, height |-> 0]
  /\ gridLines' = << >>
  /\ activeLine' = null
  /\ hoveredLine' = null
  /\ imageLoaded' = FALSE
  /\ cursor' = ""
  /\ lastEvent' = Event("upload", 0, 0)
  /\ downloadReady' = FALSE
  /\ gridImages' = << >>
  /\ UNCHANGED << isProcessing, op >>
  /\ UNCHANGED routeVars
  /\ Quiet
  /\ UNCHANGED << rows, columns, homeGridLines, homeImageSize >>

\* a regeneration that keeps the vertical lines when only the rows change
Regenerate_KeepVertical(r, c, size) ==
  IF size.width = 0 \/ size.height = 0
    THEN UNCHANGED << gridLines, homeGridLines, homeImageSize >>
    ELSE LET fresh == DefaultLines(r, c, size.width, size.height)
             oldV == SelectSeq(gridLines, LAMBDA line : ~line.isHorizontal)
             kept == [k \in 1..Len(fresh) |->
                        IF k > r - 1 /\ Len(oldV) = c - 1
                          THEN oldV[k - (r - 1)] ELSE fresh[k]]
         IN /\ gridLines' = kept
            /\ homeGridLines' = kept
            /\ homeImageSize' = size

\* the grid regeneration effect of GridCanvas, run with the new props/state,
\* and Home.handleGridLinesChange which it calls
Regenerate(r, c, size) ==
  IF size.width = 0 \/ size.height = 0
    THEN UNCHANGED << gridLines, homeGridLines, homeImageSize >>
    ELSE /\ gridLines' = DefaultLines(r, c, size.width, size.height)
         /\ homeGridLines' = DefaultLines(r, c, size.width, size.height)
         /\ homeImageSize' = size

\* img.onload of GridCanvas: setImageSize, setImageLoaded, then the effect
imgOnload ==
  /\ imageUrl # 0
  /\ ~imageLoaded
  /\ LET size == [width |-> Images[imageUrl][1], height |-> Images[imageUrl][2]]
     IN /\ imageSize' = size
        /\ Regenerate(rows, columns, size)
  /\ imageLoaded' = TRUE
  /\ lastEvent' = Event("load", 0, 0)
  /\ UNCHANGED routeVars
  /\ Quiet
  /\ UNCHANGED pageVars
  /\ UNCHANGED << imageUrl, rows, columns, activeLine, hoveredLine, cursor >>

\* Home.resetImage ("Upload Different Image"): the editor unmounts
resetImage ==
  /\ imageUrl # 0
  /\ imageUrl' = 0
  /\ imageSize' = [width |-> 0, height |-> 0]
  /\ gridLines' = << >>
  /\ activeLine' = null
  /\ hoveredLine' = null
  /\ imageLoaded' = FALSE
  /\ cursor' = ""
  /\ lastEvent' = Event("reset", 0, 0)
  /\ downloadReady' = FALSE
  /\ gridImages' = << >>
  /\ UNCHANGED << isProcessing, op >>
  /\ UNCHANGED routeVars
  /\ Quiet
  /\ UNCHANGED << rows, columns, homeGridLines, homeImageSize >>

\* GridControls.handleRowChange -> onGridChange -> Home.handleGridChange ->
\* GridCanvas regeneration effect
handleRowChange(value) ==
  /\ imageUrl # 0
  /\ ~isProcessing
  /\ value # rows
  /\ rows' = value
  /\ Regenerate(value, columns, imageSize)
  /\ lastEvent' = Event("rows", Cardinality(CustomLines), 0)
  /\ UNCHANGED routeVars
  /\ Quiet
  /\ UNCHANGED pageVars
  /\ UNCHANGED << imageUrl, columns, imageSize, activeLine, hoveredLine,
                  imageLoaded, cursor >>

handleColumnChange(value) ==
  /\ imageUrl # 0
  /\ ~isProcessing
  /\ value # columns
  /\ columns' = value
  /\ Regenerate(rows, value, imageSize)
  /\ lastEvent' = Event("columns", Cardinality(CustomLines), 0)
  /\ UNCHANGED routeVars
  /\ Quiet
  /\ UNCHANGED pageVars
  /\ UNCHANGED << imageUrl, rows, imageSize, activeLine, hoveredLine,
                  imageLoaded, cursor >>

handleMouseDown(x, y) ==
  /\ imageUrl # 0
  /\ LET closestLine == ClosestLine(gridLines, x, y)
     IN activeLine' = IF closestLine # NoLine THEN closestLine ELSE activeLine
  /\ lastEvent' = Event("down", x, y)
  /\ UNCHANGED routeVars
  /\ Quiet
  /\ UNCHANGED pageVars
  /\ UNCHANGED << homeVars, imageSize, gridLines, hoveredLine, imageLoaded, cursor >>

\* a pointer-move that updates the canvas lines without onGridLinesChange
handleMouseMove_NoNotify(x, y) ==
  /\ imageUrl # 0
  /\ LET nearestLine == ClosestLine(gridLines, x, y)
     IN /\ hoveredLine' = nearestLine
        /\ cursor' = CursorFor(gridLines, nearestLine)
  /\ IF activeLine # null /\ activeLine < Len(gridLines)
       THEN gridLines' = UpdatedLines(gridLines, activeLine, x, y, imageSize)
       ELSE UNCHANGED gridLines
  /\ lastEvent' = Event("move", x, y)
  /\ UNCHANGED routeVars
  /\ Quiet
  /\ UNCHANGED pageVars
  /\ UNCHANGED << imageUrl, rows, columns, imageSize, activeLine, imageLoaded,
                  homeGridLines, homeImageSize >>

\* handleMouseMove: hover and cursor first, then the drag.  When activeLine
\* is not an index of gridLines, updatedLines[activeLine] is undefined and
\* line.isHorizontal throws before setGridLines: only the hover is updated.
handleMouseMove(x, y) ==
  /\ imageUrl # 0
  /\ LET nearestLine == ClosestLine(gridLines, x, y)
     IN /\ hoveredLine' = nearestLine
        /\ cursor' = CursorFor(gridLines, nearestLine)
  /\ IF activeLine # null /\ activeLine < Len(gridLines)
       THEN LET updatedLines == UpdatedLines(gridLines, activeLine, x, y, imageSize)
            IN /\ gridLines' = updatedLines
               /\ homeGridLines' = updatedLines
               /\ homeImageSize' = imageSize
       ELSE UNCHANGED << gridLines, homeGridLines, homeImageSize >>
  /\ lastEvent' = Event("move", x, y)
  /\ UNCHANGED routeVars
  /\ Quiet
  /\ UNCHANGED pageVars
  /\ UNCHANGED << imageUrl, rows, columns, imageSize, activeLine, imageLoaded >>

\* a pointer-up that leaves the drag active
handleMouseUp_KeepActive ==
  /\ imageUrl # 0
  /\ lastEvent' = Event("up", 0, 0)
  /\ UNCHANGED routeVars
  /\ Quiet
  /\ UNCHANGED pageVars
  /\ UNCHANGED << homeVars, canvasVars >>

handleMouseUp ==
  /\ imageUrl # 0
  /\ activeLine' = null
  /\ lastEvent' = Event("up", 0, 0)
  /\ UNCHANGED routeVars
  /\ Quiet
  /\ UNCHANGED pageVars
  /\ UNCHANGED << homeVars, imageSize, gridLines, hoveredLine, imageLoaded, cursor >>

handleMouseLeave ==
  /\ imageUrl # 0
  /\ hoveredLine' = null
  /\ activeLine' = null
  /\ lastEvent' = Event("leave", 0, 0)
  /\ UNCHANGED routeVars
  /\ Quiet
  /\ UNCHANGED pageVars
  /\ UNCHANGED << homeVars, imageSize, gridLines, imageLoaded, cursor >>

\* Home.handleResetGrid behind the "Reset Grid" button of GridControls
\* (disabled while processing): Home's lines are rebuilt from Home's rows,
\* columns and imageSize; the canvas is not told
handleResetGrid ==
  /\ imageUrl # 0
  /\ ~isProcessing
  /\ IF homeImageSize.width = 0 \/ homeImageSize.height = 0
       THEN UNCHANGED homeGridLines
       ELSE homeGridLines' = DefaultLines(rows, columns, homeImageSize.width,
                                          homeImageSize.height)
  /\ lastEvent' = Event("resetGrid", Cardinality(CustomLines), 0)
  /\ UNCHANGED routeVars
  /\ Quiet
  /\ UNCHANGED pageVars
  /\ UNCHANGED << imageUrl, rows, columns, homeImageSize, canvasVars >>

Next ==
  \/ \E img \in EditorImages : handleImageUpload(img)
  \/ imgOnload
  \/ resetImage
  \/ \E value \in MinGrid..MaxGrid : handleRowChange(value)
  \/ \E value \in MinGrid..MaxGrid : handleColumnChange(value)
  \/ \E p \in Pointers : handleMouseDown(p[1] * Scale, p[2] * Scale)
  \/ \E p \in Pointers : handleMouseMove(p[1] * Scale, p[2] * Scale)
  \/ handleMouseUp
  \/ handleMouseLeave
  \/ handleResetGrid

Spec == Init /\ [][Next]_vars

\* ------------------------------------------------- extraction routines
\* bounds of the extraction inputs
\* longest grid-line list handed to cutImageWithGridLines
MaxLines == 4
\* largest rows / columns value of a request to the server route
MaxSrvGrid == 3

\* <<imageWidth, imageHeight>> of the client cuts, in pixels
CutSizes == { <<300, 300>>, <<300, 240>> }
\* line positions of the client cuts, in pixels
CutPositions == { 0, 100, 200, 300 }
\* <<metadata.width, metadata.height>> of the images posted to the server
SrvSizes == { <<5, 3>>, <<4, 4>>, <<1, 3>> }

\* a sort that keeps one of several equal positions
InsertSorted_Unique(sorted, v) ==
  IF \E i \in 1..Len(sorted) : sorted[i] = v THEN sorted
  ELSE LET n == Cardinality({i \in 1..Len(sorted) : sorted[i] <= v})
       IN SubSeq(sorted, 1, n) \o << v >> \o SubSeq(sorted, n + 1, Len(sorted))

\* .sort((a, b) => a - b)
InsertSorted(sorted, v) ==
  LET n == Cardinality({i \in 1..Len(sorted) : sorted[i] <= v})
  IN SubSeq(sorted, 1, n) \o << v >> \o SubSeq(sorted, n + 1, Len(sorted))

\* no sort at all
SortAscending_None(s) == s

RECURSIVE SortAscending(_)
SortAscending(s) ==
  IF s = << >> THEN << >>
  ELSE InsertSorted(SortAscending(SubSeq(s, 1, Len(s) - 1)), s[Len(s)])

\* .filter(line => line.isHorizontal = horizontal).map(line => line.position)
AxisPositions(lines, horizontal) ==
  LET sel == SelectSeq(lines, LAMBDA line : line.isHorizontal = horizontal)
  IN [k \in 1..Len(sel) |-> sel[k].position]

\* [0, ...horizontalLines, imageHeight]
allHorizontalPositions(lines, imageHeight) ==
  << 0 >> \o SortAscending(AxisPositions(lines, TRUE)) \o << imageHeight * Scale >>

\* [0, ...verticalLines, imageWidth]
allVerticalPositions(lines, imageWidth) ==
  << 0 >> \o SortAscending(AxisPositions(lines, FALSE)) \o << imageWidth * Scale >>

\* the loops nested the other way round: column-major
RECURSIVE CutLoop_ColumnMajor(_, _, _, _, _)
CutLoop_ColumnMajor(allH, allV, i, j, acc) ==
  IF j >= Len(allV) - 1 THEN acc
  ELSE IF i >= Len(allH) - 1 THEN CutLoop_ColumnMajor(allH, allV, 0, j + 1, acc)
  ELSE LET startX == allV[j + 1]
           startY == allH[i + 1]
           cellWidth == allV[j + 2] - startX
           cellHeight == allH[i + 2] - startY
       IN CutLoop_ColumnMajor(allH, allV, i + 1, j,
                  Append(acc, [x |-> startX, y |-> startY,
                               width |-> cellWidth, height |-> cellHeight]))

\* the nested loops of cutImageWithGridLines (0-based i, j): the source
\* rectangle of every drawImage call, in call order
RECURSIVE CutLoop(_, _, _, _, _)
CutLoop(allH, allV, i, j, acc) ==
  IF i >= Len(allH) - 1 THEN acc
  ELSE IF j >= Len(allV) - 1 THEN CutLoop(allH, allV, i + 1, 0, acc)
  ELSE LET startX == allV[j + 1]
           startY == allH[i + 1]
           cellWidth == allV[j + 2] - startX
           cellHeight == allH[i + 2] - startY
       IN CutLoop(allH, allV, i, j + 1,
                  Append(acc, [x |-> startX, y |-> startY,
                               width |-> cellWidth, height |-> cellHeight]))

CutRects(lines, imageWidth, imageHeight) ==
  CutLoop(allHorizontalPositions(lines, imageHeight),
          allVerticalPositions(lines, imageWidth), 0, 0, << >>)

\* canvas.width = cellWidth: the canvas dimension is a whole number of pixels
\* (the lengths here are never negative)
CanvasDim(v) == v \div Scale

\* canvas.toDataURL('image/png') after the drawImage of rect: the PNG of that
\* crop, or "data:," when the canvas has no pixels
toDataURL(rect) ==
  IF CanvasDim(rect.width) = 0 \/ CanvasDim(rect.height) = 0
    THEN [mime |-> "", data |-> << >>]
    ELSE [mime |-> "image/png", data |-> << rect >>]

\* `image_${n}.png`
Filename(n) == << "image_", n, ".png" >>

\* b64toBlob(dataUrl.split(',')[1], 'image/png')
b64toBlob(dataUrl) == [type |-> "image/png", bytes |-> dataUrl.data]

\* gridImages.forEach((dataUrl, index) => zip.file(...)) of createAndDownloadZip
RECURSIVE ZipFiles(_, _, _)
ZipFiles(dataUrls, index, z) ==
  IF index >= Len(dataUrls) THEN z
  ELSE ZipFiles(dataUrls, index + 1,
                (Filename(index + 1) :> b64toBlob(dataUrls[index + 1])) @@ z)

\* ---- server route
\* parseInt of a form value: << n >>, or << >> for NaN (a missing or
\* non-numeric value)
parseInt(raw) == IF raw.numeric THEN << raw.n >> ELSE << >>

\* !rows: NaN and 0 are falsy
Falsy(v) == v = << >> \/ v = << 0 >>

\* Math.floor(a / b), b # 0
Floor(a, b) == IF b > 0 THEN a \div b ELSE (-a) \div (-b)

\* the loops of POST that create the extract promises (0-based row, col)
RECURSIVE PostLoop(_, _, _, _, _, _, _)
PostLoop(r, c, cellWidth, cellHeight, row, col, promises) ==
  IF row >= r THEN promises
  ELSE IF col >= c THEN PostLoop(r, c, cellWidth, cellHeight, row + 1, 0, promises)
  ELSE PostLoop(r, c, cellWidth, cellHeight, row, col + 1,
                Append(promises, [row |-> row, col |-> col,
                                  left |-> col * cellWidth, top |-> row * cellHeight,
                                  width |-> cellWidth, height |-> cellHeight]))

PostCells(width, height, r, c) ==
  PostLoop(r, c, Floor(width, c), Floor(height, r), 0, 0, << >>)

\* sharp rejects an extract area without pixels
BadExtractArea(cell) == cell.width <= 0 \/ cell.height <= 0

\* ---- the calls drawn by the extraction specification
LineLists ==
  UNION { [1..n -> [position : {p * Scale : p \in CutPositions},
                    isHorizontal : BOOLEAN]] : n \in 0..MaxLines }

ClientCalls ==
  { [fn |-> "cutImageWithGridLines", gridLines |-> lines,
     imageWidth |-> size[1], imageHeight |-> size[2]] :
       lines \in LineLists, size \in CutSizes }

RawCounts ==
  { [numeric |-> TRUE, n |-> n] : n \in (-1)..MaxSrvGrid }
    \cup { [numeric |-> FALSE, n |-> 0] }

ServerCalls ==
  { [fn |-> "POST", hasImage |-> b, rows |-> r, columns |-> c,
     width |-> size[1], height |-> size[2]] :
       b \in BOOLEAN, r \in RawCounts, c \in RawCounts, size \in SrvSizes }

\* every line of a client call lies within the bounds on its axis
WithinBounds(c) ==
  \A k \in 1..Len(c.gridLines) :
    c.gridLines[k].position <=
      (IF c.gridLines[k].isHorizontal THEN c.imageHeight ELSE c.imageWidth) * Scale

CutInit ==
  /\ EditorInit
  /\ PageInit
  /\ call \in { c \in ClientCalls : WithinBounds(c) } \cup ServerCalls
  /\ pc = "start"
  /\ drawn = << >>
  /\ images = << >>
  /\ pending = {}
  /\ zip = << >>
  /\ saved = NoFile
  /\ response = [status |-> 0, error |-> "", body |-> << >>]

\* img.onload of cutImageWithGridLines with a drawing context: resolve
cutImageWithGridLines ==
  /\ call.fn = "cutImageWithGridLines"
  /\ pc = "start"
  /\ LET rects == CutRects(call.gridLines, call.imageWidth, call.imageHeight)
     IN /\ drawn' = rects
        /\ images' = [k \in 1..Len(rects) |-> toDataURL(rects[k])]
  /\ pc' = "cut"
  /\ UNCHANGED << editorVars, pageVars, alert, call, pending, zip, saved, response >>

\* img.onerror, or no 2d context: reject
cutReject ==
  /\ call.fn = "cutImageWithGridLines"
  /\ pc = "start"
  /\ pc' = "rejected"
  /\ UNCHANGED << editorVars, pageVars, alert, call, drawn, images, pending, zip, saved, response >>

\* createAndDownloadZip(gridImages) on the images of the cut
createAndDownloadZip ==
  /\ call.fn = "cutImageWithGridLines"
  /\ pc = "cut"
  /\ LET z == ZipFiles(images, 0, << >>)
     IN /\ zip' = z
        /\ saved' = [name |-> "grid-images.zip", body |-> z]
  /\ pc' = "saved"
  /\ UNCHANGED << editorVars, pageVars, alert, call, drawn, images, pending, response >>

\* POST up to the loops: validation, cell size, one extract promise per cell
POST ==
  /\ call.fn = "POST"
  /\ pc = "start"
  /\ LET r == parseInt(call.rows)
         c == parseInt(call.columns)
     IN IF ~call.hasImage \/ Falsy(r) \/ Falsy(c)
          THEN /\ response' = [status |-> 400,
                             error |-> "Missing required parameters",
                             body |-> << >>]
               /\ pc' = "done"
               /\ UNCHANGED << drawn, pending >>
          ELSE LET promises == PostCells(call.width, call.height, r[1], c[1])
               IN /\ drawn' = promises
                  /\ pending' = { promises[k] : k \in 1..Len(promises) }
                  /\ pc' = "extracting"
                  /\ UNCHANGED response
  /\ UNCHANGED << editorVars, pageVars, alert, call, images, zip, saved >>

\* the file number computed with the row count as the stride
extractDone_RowStride(cell) ==
  /\ pc = "extracting"
  /\ cell \in pending
  /\ ~BadExtractArea(cell)
  /\ zip' = (Filename(cell.row * parseInt(call.rows)[1] + cell.col + 1)
               :> [bytes |-> << [left |-> cell.left, top |-> cell.top,
                                 width |-> cell.width, height |-> cell.height] >>])
            @@ zip
  /\ pending' = pending \ { cell }
  /\ UNCHANGED << editorVars, pageVars, alert, call, pc, drawn, images, saved, response >>

\* one extract promise fulfils: its .then adds the cell to the zip
extractDone(cell) ==
  /\ pc = "extracting"
  /\ cell \in pending
  /\ ~BadExtractArea(cell)
  /\ zip' = (Filename(cell.row * parseInt(call.columns)[1] + cell.col + 1)
               :> [bytes |-> << [left |-> cell.left, top |-> cell.top,
                                 width |-> cell.width, height |-> cell.height] >>])
            @@ zip
  /\ pending' = pending \ { cell }
  /\ UNCHANGED << editorVars, pageVars, alert, call, pc, drawn, images, saved, response >>

\* the answer of the catch block of POST
CatchResponse ==
  [status |-> 500, error |-> "Failed to process image", body |-> << >>]

\* one extract promise rejects (an area without pixels, or image data sharp
\* cannot decode): Promise.all rejects, the catch answers
extractFail(cell) ==
  /\ pc = "extracting"
  /\ cell \in pending
  /\ response' = CatchResponse
  /\ pc' = "done"
  /\ UNCHANGED << editorVars, pageVars, alert, call, drawn, images, pending, zip, saved >>

\* an archive generation that does not wait for the extractions
generateZip_NoJoin ==
  /\ pc = "extracting"
  /\ response' = [status |-> 200, error |-> "", body |-> zip]
  /\ pc' = "done"
  /\ UNCHANGED << editorVars, pageVars, alert, call, drawn, images, pending, zip, saved >>

\* await Promise.all(promises); zip.generateAsync; the archive is returned
generateZip ==
  /\ pc = "extracting"
  /\ pending = {}
  /\ response' = [status |-> 200, error |-> "", body |-> zip]
  /\ pc' = "done"
  /\ UNCHANGED << editorVars, pageVars, alert, call, drawn, images, pending, zip, saved >>

\* await Promise.all(promises) passed and zip.generateAsync rejects: the
\* catch answers
generateFail ==
  /\ pc = "extracting"
  /\ pending = {}
  /\ response' = CatchResponse
  /\ pc' = "done"
  /\ UNCHANGED << editorVars, pageVars, alert, call, drawn, images, pending, zip, saved >>

CutNext ==
  \/ cutImageWithGridLines
  \/ cutReject
  \/ createAndDownloadZip
  \/ POST
  \/ \E cell \in pending : extractDone(cell)
  \/ \E cell \in pending : extractFail(cell)
  \/ generateZip
  \/ generateFail

SpecCut == CutInit /\ [][CutNext]_vars

\* ---- the cut handlers of Home
\* the loops of cutImageIntoGrid: cellWidth = img.width / columns,
\* cellHeight = img.height / rows (0-based row, col)
RECURSIVE IntoGridLoop(_, _, _, _, _, _, _)
IntoGridLoop(r, c, cellWidth, cellHeight, row, col, acc) ==
  IF row >= r THEN acc
  ELSE IF col >= c THEN IntoGridLoop(r, c, cellWidth, cellHeight, row + 1, 0, acc)
  ELSE IntoGridLoop(r, c, cellWidth, cellHeight, row, col + 1,
                    Append(acc, [x |-> col * cellWidth, y |-> row * cellHeight,
                                 width |-> cellWidth, height |-> cellHeight]))

IntoGridRects(width, height, r, c) ==
  IntoGridLoop(r, c, (width * Scale) \div c, (height * Scale) \div r, 0, 0, << >>)

\* natural size of the image behind imageUrl / imageFile
NaturalSize == [width |-> Images[imageUrl][1], height |-> Images[imageUrl][2]]

\* the rectangles handleClientSideCut cuts in the current state: the custom
\* grid lines when Home has them, else the rows x columns grid
ClientCutRects ==
  IF Len(homeGridLines) > 0 /\ homeImageSize.width > 0 /\ homeImageSize.height > 0
    THEN CutRects(homeGridLines, homeImageSize.width, homeImageSize.height)
    ELSE IntoGridRects(NaturalSize.width, NaturalSize.height, rows, columns)

\* rows.toString(), columns.toString()
toString(n) == [numeric |-> TRUE, n |-> n]

\* the cells the route extracts for the request handleServerSideCut sends in
\* the current state: the image file, rows and columns
ServerCutCells ==
  PostCells(NaturalSize.width, NaturalSize.height,
            parseInt(toString(rows))[1], parseInt(toString(columns))[1])

\* ---- the page: cut buttons, fallback, download
\* the pointer-down and pointer-move positions used while the whole page is
\* explored
PageDown == { <<105, 155>> }
PageMove == { <<-1000, 250>> }

\* what the callbacks of one render of Home close over
Closure ==
  [url |-> imageUrl, gridLines |-> homeGridLines, imageSize |-> homeImageSize,
   rows |-> rows, columns |-> columns]

\* the images handleClientSideCut awaits, from what its closure holds: along
\* the custom grid lines when there are lines and a size, else rows x columns
\* cells of the natural size of the image
CutImages(o) ==
  LET rects ==
        IF Len(o.gridLines) > 0 /\ o.imageSize.width > 0 /\ o.imageSize.height > 0
          THEN CutRects(o.gridLines, o.imageSize.width, o.imageSize.height)
          ELSE IntoGridRects(Images[o.url][1], Images[o.url][2], o.rows, o.columns)
  IN [k \in 1..Len(rects) |-> toDataURL(rects[k])]

\* alert() texts of Home
CutFailedAlert == "Failed to cut image. Please try again."
ServerFailedAlert ==
  "Failed to process image on server. Falling back to client-side processing..."
ZipFailedAlert == "Failed to create zip file. Please try again."

\* no request is with the route
RouteIdle ==
  /\ call' = [fn |-> "none"]
  /\ pc' = "idle"
  /\ drawn' = << >>
  /\ pending' = {}
  /\ zip' = << >>
  /\ response' = [status |-> 0, error |-> "", body |-> << >>]

\* "Cut Image into Grid" (disabled while processing): handleClientSideCut up
\* to its await
handleClientSideCut ==
  /\ imageUrl # 0
  /\ ~isProcessing
  /\ isProcessing' = TRUE
  /\ op' = [state |-> "client", fallback |-> FALSE] @@ Closure
  /\ lastEvent' = Event("cut", 0, 0)
  /\ UNCHANGED << downloadReady, gridImages >>
  /\ UNCHANGED routeVars
  /\ Quiet
  /\ UNCHANGED << homeVars, canvasVars >>

\* the awaited cut resolves: setGridImages, setDownloadReady, finally
clientCutResolve ==
  /\ op.state = "client"
  /\ gridImages' = CutImages(op)
  /\ downloadReady' = TRUE
  /\ isProcessing' = FALSE
  /\ op' = [state |-> "none"]
  /\ lastEvent' = Event("cutResolved", IF op.fallback THEN 1 ELSE 0, 0)
  /\ UNCHANGED routeVars
  /\ Quiet
  /\ UNCHANGED << homeVars, canvasVars >>

\* a rejected cut that stores the cells drawn so far
clientCutReject_Partial ==
  /\ op.state = "client"
  /\ gridImages' = SubSeq(CutImages(op), 1, 1)
  /\ alert' = CutFailedAlert
  /\ isProcessing' = FALSE
  /\ op' = [state |-> "none"]
  /\ lastEvent' = Event("cutRejected", IF op.fallback THEN 1 ELSE 0, 0)
  /\ UNCHANGED downloadReady
  /\ UNCHANGED routeVars
  /\ saved' = NoFile
  /\ UNCHANGED << homeVars, canvasVars >>

\* the awaited cut rejects (img.onerror, no 2d context): catch, finally
clientCutReject ==
  /\ op.state = "client"
  /\ alert' = CutFailedAlert
  /\ isProcessing' = FALSE
  /\ op' = [state |-> "none"]
  /\ lastEvent' = Event("cutRejected", IF op.fallback THEN 1 ELSE 0, 0)
  /\ UNCHANGED << downloadReady, gridImages >>
  /\ UNCHANGED routeVars
  /\ saved' = NoFile
  /\ UNCHANGED << homeVars, canvasVars >>

\* img.onload of the cut runs and drawImage or toDataURL throws at a cell:
\* the exception leaves the event handler, the promise is neither resolved
\* nor rejected and the await of handleClientSideCut never returns
cutThrow ==
  /\ op.state = "client"
  /\ op' = [op EXCEPT !.state = "hung"]
  /\ lastEvent' = Event("cutThrew", IF op.fallback THEN 1 ELSE 0, 0)
  /\ UNCHANGED << isProcessing, downloadReady, gridImages >>
  /\ UNCHANGED routeVars
  /\ Quiet
  /\ UNCHANGED << homeVars, canvasVars >>

\* "Process on Server" (disabled while processing): handleServerSideCut up to
\* the fetch of /api/cut-image
handleServerSideCut ==
  /\ imageUrl # 0
  /\ ~isProcessing
  /\ isProcessing' = TRUE
  /\ op' = [state |-> "server", fallback |-> FALSE] @@ Closure
  /\ call' = [fn |-> "POST", hasImage |-> TRUE,
              rows |-> toString(rows), columns |-> toString(columns),
              width |-> NaturalSize.width, height |-> NaturalSize.height]
  /\ pc' = "start"
  /\ drawn' = << >>
  /\ pending' = {}
  /\ zip' = << >>
  /\ response' = [status |-> 0, error |-> "", body |-> << >>]
  /\ lastEvent' = Event("serverCut", 0, 0)
  /\ Quiet
  /\ UNCHANGED << downloadReady, gridImages, images >>
  /\ UNCHANGED << homeVars, canvasVars >>

\* response.ok: the blob is downloaded as grid-images.zip; finally
serverCutDownload ==
  /\ op.state = "server"
  /\ pc = "done"
  /\ response.status = 200
  /\ saved' = [name |-> "grid-images.zip", body |-> response.body]
  /\ isProcessing' = FALSE
  /\ op' = [state |-> "none"]
  /\ RouteIdle
  /\ lastEvent' = Event("serverDownloaded", 0, 0)
  /\ alert' = ""
  /\ UNCHANGED << downloadReady, gridImages, images >>
  /\ UNCHANGED << homeVars, canvasVars >>

\* a failed request that is only reported
serverCutFallback_DeadEnd ==
  /\ op.state = "server"
  /\ pc = "start" \/ (pc = "done" /\ response.status # 200)
  /\ alert' = ServerFailedAlert
  /\ isProcessing' = FALSE
  /\ op' = [state |-> "none"]
  /\ RouteIdle
  /\ lastEvent' = Event("serverFailed", 0, 0)
  /\ saved' = NoFile
  /\ UNCHANGED << downloadReady, gridImages, images >>
  /\ UNCHANGED << homeVars, canvasVars >>

\* a fallback that is not awaited: the finally runs while the client cut runs
serverCutFallback_NoAwait ==
  /\ op.state = "server"
  /\ pc = "start" \/ (pc = "done" /\ response.status # 200)
  /\ alert' = ServerFailedAlert
  /\ op' = [op EXCEPT !.state = "client", !.fallback = TRUE]
  /\ isProcessing' = FALSE
  /\ RouteIdle
  /\ lastEvent' = Event("serverFailed", 0, 0)
  /\ saved' = NoFile
  /\ UNCHANGED << downloadReady, gridImages, images >>
  /\ UNCHANGED << homeVars, canvasVars >>

\* fetch rejects (the request never reached the route) or !response.ok: the
\* catch alerts and calls the handleClientSideCut of the same render
serverCutFallback ==
  /\ op.state = "server"
  /\ pc = "start" \/ (pc = "done" /\ response.status # 200)
  /\ alert' = ServerFailedAlert
  /\ op' = [op EXCEPT !.state = "client", !.fallback = TRUE]
  /\ RouteIdle
  /\ lastEvent' = Event("serverFailed", 0, 0)
  /\ saved' = NoFile
  /\ UNCHANGED << isProcessing, downloadReady, gridImages, images >>
  /\ UNCHANGED << homeVars, canvasVars >>

\* "Download" (rendered when downloadReady): createAndDownloadZip resolves
handleDownload ==
  /\ imageUrl # 0
  /\ downloadReady
  /\ Len(gridImages) > 0
  /\ saved' = [name |-> "grid-images.zip", body |-> ZipFiles(gridImages, 0, << >>)]
  /\ lastEvent' = Event("download", 0, 0)
  /\ alert' = ""
  /\ UNCHANGED routeVars
  /\ UNCHANGED pageVars
  /\ UNCHANGED << homeVars, canvasVars >>

\* "Download": createAndDownloadZip rejects, the catch of handleDownload
handleDownloadFail ==
  /\ imageUrl # 0
  /\ downloadReady
  /\ Len(gridImages) > 0
  /\ alert' = ZipFailedAlert
  /\ lastEvent' = Event("downloadFailed", 0, 0)
  /\ saved' = NoFile
  /\ UNCHANGED pageVars
  /\ UNCHANGED routeVars
  /\ UNCHANGED << homeVars, canvasVars >>

\* the extract promise of the route that was created first among the pending
FirstPending ==
  IF pending = {} THEN {}
  ELSE LET first == CHOOSE k \in 1..Len(drawn) :
                      /\ drawn[k] \in pending
                      /\ \A j \in 1..(k - 1) : drawn[j] \notin pending
       IN { drawn[first] }

\* the page with its cut buttons.  Bounds of this exploration: the columns
\* slider is left alone, one line at a time is grabbed at PageDown and dragged
\* to PageMove, the pointer stays off the canvas while a cut runs, and the
\* extract promises of the route settle in the order of their creation
\* (SpecCut runs them in every order).
PageNext ==
  \/ \E img \in 1..Len(Images) : handleImageUpload(img)
  \/ imgOnload
  \/ resetImage
  \/ \E value \in MinGrid..MaxGrid : handleRowChange(value)
  \/ ~isProcessing /\ \E p \in PageDown : handleMouseDown(p[1] * Scale, p[2] * Scale)
  \/ ~isProcessing /\ \E p \in PageMove : handleMouseMove(p[1] * Scale, p[2] * Scale)
  \/ ~isProcessing /\ handleMouseUp
  \/ handleClientSideCut
  \/ clientCutResolve
  \/ clientCutReject
  \/ cutThrow
  \/ handleServerSideCut
  \/ POST
  \/ \E cell \in FirstPending : extractDone(cell)
  \/ \E cell \in FirstPending : extractFail(cell)
  \/ generateZip
  \/ generateFail
  \/ serverCutDownload
  \/ serverCutFallback
  \/ handleDownload
  \/ handleDownloadFail

SpecPage == Init /\ [][PageNext]_vars

\* the page with what the browser and the server guarantee: the load of the
\* image of a cut ends (onload, which may throw, or onerror), the route runs
\* on and answers, and the fetch settles
PageFairness ==
  /\ WF_vars(clientCutResolve \/ clientCutReject \/ cutThrow)
  /\ WF_vars(POST)
  /\ WF_vars(\E cell \in FirstPending : extractDone(cell) \/ extractFail(cell))
  /\ WF_vars(generateZip \/ generateFail)
  /\ WF_vars(serverCutDownload \/ serverCutFallback)

SpecPageFair == Init /\ [][PageNext]_vars /\ PageFairness

\* ===================================================================
\* Properties
\* ===================================================================
\* the axis bound of a line of the canvas, in 1/Scale pixel
AxisBound(line) ==
  (IF line.isHorizontal THEN imageSize.height ELSE imageSize.width) * Scale

\* index (0-based) of the first vertical line of the canvas
FirstVertical == rows - 1

\* C1: once an image is loaded, after any sequence of pointer events and
\* row/column changes every horizontal line lies in [0, H] and every
\* vertical line in [0, W]; the first vertical line of a 3-column grid on a
\* 300-wide image dragged to pointer x = 500 is at x = 300.
C1_LinesWithinBounds ==
  /\ \A k \in 1..Len(gridLines) :
       /\ 0 <= gridLines[k].position
       /\ gridLines[k].position <= AxisBound(gridLines[k])
  /\ ( /\ lastEvent.kind = "move"
       /\ lastEvent.x = 500 * Scale
       /\ activeLine = FirstVertical
       /\ columns = 3
       /\ imageSize.width = 300 )
     => gridLines[FirstVertical + 1].position = 300 * Scale

\* the first vertical line was dragged to pointer x = 500 and sits on x = 300
C1_Witness ==
  /\ lastEvent.kind = "move"
  /\ lastEvent.x = 500 * Scale
  /\ lastEvent.y < 0
  /\ activeLine = FirstVertical
  /\ columns = 3
  /\ imageSize.width = 300
  /\ ~gridLines[FirstVertical + 1].isHorizontal
  /\ gridLines[FirstVertical + 1].position = 300 * Scale

\* C2: whenever rows, columns or the (non-zero) image bounds change, the
\* canvas holds exactly rows-1 horizontal lines followed by columns-1
\* vertical lines, horizontal line i at i/rows*height, vertical line j at
\* j/columns*width: no dragged position survives.
EvenlySpaced(lines, r, c, size) ==
  /\ Len(lines) = (r - 1) + (c - 1)
  /\ \A i \in 1..(r - 1) :
       /\ lines[i].isHorizontal
       /\ lines[i].position * r = i * size.height * Scale
  /\ \A j \in 1..(c - 1) :
       /\ ~lines[(r - 1) + j].isHorizontal
       /\ lines[(r - 1) + j].position * c = j * size.width * Scale

C2_RegeneratedOnChange ==
  [][ ( /\ (rows' # rows \/ columns' # columns \/ imageSize' # imageSize)
        /\ imageSize'.width # 0
        /\ imageSize'.height # 0 )
      => EvenlySpaced(gridLines', rows', columns', imageSize') ]_vars

\* a row or column change arrived while lines were off their defaults, and
\* the grid is the evenly spaced one
C2_Witness ==
  /\ lastEvent.kind \in {"rows", "columns"}
  /\ lastEvent.x >= 2
  /\ imageLoaded
  /\ EvenlySpaced(gridLines, rows, columns, imageSize)

\* C3: a pointer-move while line k is dragged changes only the position of
\* line k: the number of lines, every line's axis, the index order and the
\* position of every other line stay, also when line k crosses a neighbour.
C3_MoveChangesOneLine ==
  [][ lastEvent'.kind = "move"
      => /\ Len(gridLines') = Len(gridLines)
         /\ \A k \in 1..Len(gridLines) :
              /\ gridLines'[k].isHorizontal = gridLines[k].isHorizontal
              /\ (k # activeLine + 1 => gridLines'[k] = gridLines[k]) ]_vars

\* the first horizontal line is being dragged and is now below the second
C3_Witness ==
  /\ lastEvent.kind = "move"
  /\ rows = 3
  /\ activeLine = 0
  /\ gridLines[1].position > gridLines[2].position
  /\ gridLines[2].position = (2 * imageSize.height * Scale) \div 3

\* ---- the partition calculator
\* the number of lines of the call on one axis
AxisCount(horizontal) ==
  Cardinality({ k \in 1..Len(call.gridLines) :
                  call.gridLines[k].isHorizontal = horizontal })

\* the call is a cut that resolved
CutResolved == call.fn = "cutImageWithGridLines" /\ pc \in {"cut", "saved"}

\* no two lines of an axis share a position and none sits on 0 or the bound
DistinctInterior ==
  /\ \A k \in 1..Len(call.gridLines) :
       /\ call.gridLines[k].position > 0
       /\ call.gridLines[k].position <
            (IF call.gridLines[k].isHorizontal THEN call.imageHeight
             ELSE call.imageWidth) * Scale
  /\ \A k, m \in 1..Len(call.gridLines) :
       ( /\ k # m
         /\ call.gridLines[k].isHorizontal = call.gridLines[m].isHorizontal )
       => call.gridLines[k].position # call.gridLines[m].position

RECURSIVE TotalArea(_)
TotalArea(rects) ==
  IF rects = << >> THEN 0
  ELSE rects[1].width * rects[1].height + TotalArea(Tail(rects))

\* two rectangles share interior points
Overlap(a, b) ==
  /\ a.x < b.x + b.width
  /\ b.x < a.x + a.width
  /\ a.y < b.y + b.height
  /\ b.y < a.y + a.height

\* the rectangles lie in [0,W] x [0,H], no two overlap, and their areas add
\* up to W * H: they cover the image with no gap and no overlap
Tiles(rects, width, height) ==
  /\ \A k \in 1..Len(rects) :
       /\ rects[k].x >= 0
       /\ rects[k].y >= 0
       /\ rects[k].x + rects[k].width <= width * Scale
       /\ rects[k].y + rects[k].height <= height * Scale
  /\ \A k, m \in 1..Len(rects) : k # m => ~Overlap(rects[k], rects[m])
  /\ TotalArea(rects) = (width * Scale) * (height * Scale)

\* C4: for a list of grid lines in any order with h horizontal and v vertical
\* lines within the bounds, cutImageWithGridLines cuts exactly (h+1)*(v+1)
\* rectangles, none with a negative width or height; when no two lines of an
\* axis coincide and none sits on 0 or the bound, the rectangles tile the
\* image with no gap and no overlap.
C4_CutCountAndTiling ==
  CutResolved =>
    /\ Len(drawn) = (AxisCount(TRUE) + 1) * (AxisCount(FALSE) + 1)
    /\ Len(images) = Len(drawn)
    /\ \A k \in 1..Len(drawn) : drawn[k].width >= 0 /\ drawn[k].height >= 0
    /\ DistinctInterior => Tiles(drawn, call.imageWidth, call.imageHeight)

\* a resolved cut of a list that is out of order on both axes, horizontal
\* and vertical lines interleaved, all positions distinct and interior
C4_Witness ==
  /\ CutResolved
  /\ DistinctInterior
  /\ Len(call.gridLines) = 4
  /\ call.imageHeight # call.imageWidth
  /\ call.gridLines[1].isHorizontal /\ ~call.gridLines[2].isHorizontal
  /\ call.gridLines[3].isHorizontal /\ ~call.gridLines[4].isHorizontal
  /\ call.gridLines[1].position > call.gridLines[3].position
  /\ call.gridLines[2].position > call.gridLines[4].position
  /\ Len(drawn) = 9

\* the i-th (0-based) value in ascending order of the values of s
Ranked(s, i) ==
  CHOOSE b \in { s[k] : k \in 1..Len(s) } :
    /\ Cardinality({ k \in 1..Len(s) : s[k] < b }) <= i
    /\ i < Cardinality({ k \in 1..Len(s) : s[k] <= b })

\* the boundaries of one axis of the call: 0, the lines, the bound
Boundaries(horizontal) ==
  << 0 >> \o AxisPositions(call.gridLines, horizontal)
          \o << (IF horizontal THEN call.imageHeight ELSE call.imageWidth) * Scale >>

\* C5: the cells are emitted in row-major order whatever the order of the
\* input lines: rectangle k (0-based) spans the sorted horizontal interval
\* floor(k/(v+1)) and the sorted vertical interval k mod (v+1); the uniform
\* 3x3 grid on a 300x300 image gives nine 100x100 rectangles starting
\* (0,0), (100,0), (200,0), (0,100).
C5_RowMajorOrder ==
  CutResolved =>
    /\ \A k \in 0..(Len(drawn) - 1) :
         LET i == k \div (AxisCount(FALSE) + 1)
             j == k % (AxisCount(FALSE) + 1)
         IN /\ drawn[k + 1].y = Ranked(Boundaries(TRUE), i)
            /\ drawn[k + 1].y + drawn[k + 1].height = Ranked(Boundaries(TRUE), i + 1)
            /\ drawn[k + 1].x = Ranked(Boundaries(FALSE), j)
            /\ drawn[k + 1].x + drawn[k + 1].width = Ranked(Boundaries(FALSE), j + 1)
    /\ ( /\ call.imageWidth = 300 /\ call.imageHeight = 300
         /\ { call.gridLines[k] : k \in 1..Len(call.gridLines) } =
              [position : {100 * Scale, 200 * Scale}, isHorizontal : BOOLEAN]
         /\ Len(call.gridLines) = 4 )
       => /\ Len(drawn) = 9
          /\ \A k \in 1..9 : /\ drawn[k].width = 100 * Scale
                             /\ drawn[k].height = 100 * Scale
          /\ << drawn[1].x, drawn[1].y >> = << 0, 0 >>
          /\ << drawn[2].x, drawn[2].y >> = << 100 * Scale, 0 >>
          /\ << drawn[3].x, drawn[3].y >> = << 200 * Scale, 0 >>
          /\ << drawn[4].x, drawn[4].y >> = << 0, 100 * Scale >>

\* the uniform 3x3 grid on the 300x300 image, its lines listed vertical
\* first and in descending order, was cut
C5_Witness ==
  /\ CutResolved
  /\ call.imageWidth = 300 /\ call.imageHeight = 300
  /\ call.gridLines =
       << [position |-> 200 * Scale, isHorizontal |-> FALSE],
          [position |-> 100 * Scale, isHorizontal |-> FALSE],
          [position |-> 200 * Scale, isHorizontal |-> TRUE],
          [position |-> 100 * Scale, isHorizontal |-> TRUE] >>
  /\ << drawn[2].x, drawn[2].y >> = << 100 * Scale, 0 >>
  /\ << drawn[4].x, drawn[4].y >> = << 0, 100 * Scale >>

\* ---- the drag controller
\* perpendicular distance from the pointer to a line
Distance(line, x, y) ==
  IF line.isHorizontal THEN Abs(y - line.position) ELSE Abs(x - line.position)

\* the lines (0-based) within the threshold of the pointer
Near(lines, x, y) ==
  { k \in 0..(Len(lines) - 1) : Distance(lines[k + 1], x, y) < Threshold * Scale }

\* C6: a pointer-down starts a drag of line k exactly when k is the nearest
\* line within the threshold at the pointer; a pointer-down with no line
\* within the threshold starts nothing: the active line stays as it was
\* (none), and the pointer-moves that follow change no line position.
C6_DragStartsOnHit ==
  /\ [][ lastEvent'.kind = "down"
         => LET near == Near(gridLines, lastEvent'.x, lastEvent'.y)
            IN /\ gridLines' = gridLines
               /\ near = {} => activeLine' = activeLine
               /\ near # {} =>
                    /\ activeLine' \in near
                    /\ \A j \in near :
                         Distance(gridLines[activeLine' + 1], lastEvent'.x, lastEvent'.y)
                           <= Distance(gridLines[j + 1], lastEvent'.x, lastEvent'.y) ]_vars
  /\ [][ (activeLine' # activeLine /\ activeLine' # null)
         => lastEvent'.kind = "down" ]_vars
  /\ [][ (activeLine = null /\ lastEvent'.kind = "move")
         => gridLines' = gridLines ]_vars

\* a pointer-down on a loaded grid away from every line: no active line
C6_Witness ==
  /\ lastEvent.kind = "down"
  /\ imageLoaded
  /\ Len(gridLines) > 0
  /\ Near(gridLines, lastEvent.x, lastEvent.y) = {}
  /\ activeLine = null

\* C7: after a pointer-up or a pointer-leave there is no active line, and a
\* pointer-leave leaves no hovered line; with no active line a pointer-move
\* changes no line, and a line becomes active again only by a pointer-down
\* within the threshold of a line.
C7_ReleaseEndsDrag ==
  /\ [](lastEvent.kind \in {"up", "leave"} => activeLine = null)
  /\ [](lastEvent.kind = "leave" => hoveredLine = null)
  /\ [][ (activeLine = null /\ lastEvent'.kind = "move")
         => (gridLines' = gridLines /\ activeLine' = null) ]_vars
  /\ [][ (activeLine = null /\ activeLine' # null)
         => /\ lastEvent'.kind = "down"
            /\ activeLine' \in Near(gridLines, lastEvent'.x, lastEvent'.y) ]_vars

\* the pointer left the canvas after a drag moved a line
C7_Witness ==
  /\ lastEvent.kind = "leave"
  /\ CustomLines # {}
  /\ activeLine = null
  /\ hoveredLine = null

\* ---- the two extraction paths
\* C8: for the same image and the same grid state, dragged lines included,
\* the server path and the client path cut the same sequence of cells: same
\* count, same order, same pixel dimensions.
C8_ClientServerSameCells ==
  imageLoaded =>
    /\ Len(ClientCutRects) = Len(ServerCutCells)
    /\ \A k \in 1..Len(ClientCutRects) :
         /\ ClientCutRects[k].x = ServerCutCells[k].left * Scale
         /\ ClientCutRects[k].y = ServerCutCells[k].top * Scale
         /\ CanvasDim(ClientCutRects[k].width) = ServerCutCells[k].width
         /\ CanvasDim(ClientCutRects[k].height) = ServerCutCells[k].height

\* the regions stored in the archive the route answered with
ArchiveRegions == { response.body[f].bytes[1] : f \in DOMAIN response.body }

\* the route answered a request for an r x c grid, r, c >= 1, with an archive
Answered ==
  /\ call.fn = "POST"
  /\ response.status = 200
  /\ parseInt(call.rows)[1] >= 1
  /\ parseInt(call.columns)[1] >= 1

\* C9: in the rows/columns fallback of the server the cell width is
\* floor(imageWidth/columns), the cell height floor(imageHeight/rows), and
\* the last column and row absorb the remainder: the extracted cells cover
\* every pixel of the image.
C9_FallbackCoversImage ==
  Answered =>
    \A px \in 0..(call.width - 1), py \in 0..(call.height - 1) :
      \E region \in ArchiveRegions :
        /\ region.left <= px /\ px < region.left + region.width
        /\ region.top <= py /\ py < region.top + region.height

\* C10: an archive built from N cell images holds exactly N entries named
\* image_1 .. image_N, entry image_k holding the k-th image of the row-major
\* sequence, for createAndDownloadZip and for the server route, where
\* N = rows * columns.
C10_ArchiveEntries ==
  /\ pc = "saved" =>
       /\ saved.name = "grid-images.zip"
       /\ DOMAIN saved.body = { << "image_", k, ".png" >> : k \in 1..Len(images) }
       /\ Cardinality(DOMAIN saved.body) = Len(images)
       /\ \A k \in 1..Len(images) :
            saved.body[<< "image_", k, ".png" >>].bytes = images[k].data
  /\ Answered =>
       LET r == parseInt(call.rows)[1]
           c == parseInt(call.columns)[1]
       IN /\ DOMAIN response.body = { << "image_", k, ".png" >> : k \in 1..(r * c) }
          /\ Cardinality(DOMAIN response.body) = r * c
          /\ \A k \in 1..(r * c) :
               response.body[<< "image_", k, ".png" >>].bytes[1] =
                 [left |-> ((k - 1) % c) * (call.width \div c),
                  top |-> ((k - 1) \div c) * (call.height \div r),
                  width |-> call.width \div c,
                  height |-> call.height \div r]

\* the route answered a 2 x 3 request with its archive
C10_Witness ==
  /\ Answered
  /\ parseInt(call.rows)[1] = 2
  /\ parseInt(call.columns)[1] = 3
  /\ Cardinality(DOMAIN response.body) = 6

\* ---- reset, hit-testing, the active line
\* the evenly spaced lines for Home's rows, columns and imageSize
HomeDefaults ==
  DefaultLines(rows, columns, homeImageSize.width, homeImageSize.height)

\* line j (1-based) of the set handleClientSideCut cuts along is at its default
HomeAtDefault(j) ==
  /\ homeImageSize.width > 0
  /\ homeImageSize.height > 0
  /\ j <= Len(homeGridLines)
  /\ j <= Len(HomeDefaults)
  /\ homeGridLines[j] = HomeDefaults[j]

\* C17: after Reset Grid on a loaded image every line of the set used for
\* extraction is at its evenly spaced default for the current rows and
\* columns, and a line at its default stays there until it is dragged itself:
\* a pointer-move that drags one line leaves every other line that was at its
\* default at its default.
C17_ResetHolds ==
  /\ [][ (lastEvent'.kind = "resetGrid" /\ imageLoaded)
         => /\ Len(homeGridLines') = (rows - 1) + (columns - 1)
            /\ \A j \in 1..Len(homeGridLines') : HomeAtDefault(j)' ]_vars
  /\ [][ lastEvent'.kind = "move"
         => \A j \in 1..Len(homeGridLines) :
              (HomeAtDefault(j) /\ (activeLine = null \/ j # activeLine + 1))
                => HomeAtDefault(j)' ]_vars

\* the line the hit-test is to select: among the lines strictly within the
\* threshold, those at the minimum distance, and of these the lowest index
Picked(lines, x, y) ==
  LET near == Near(lines, x, y)
      best == { k \in near : \A j \in near :
                  Distance(lines[k + 1], x, y) <= Distance(lines[j + 1], x, y) }
  IN IF near = {} THEN NoLine ELSE CHOOSE k \in best : \A j \in best : k <= j

\* C18: the hit-test selects the line at the minimum distance among the lines
\* strictly nearer than 10 pixels, the lowest index on a tie, and no line when
\* none is nearer than 10; the hover of a pointer-move and the drag start of
\* a pointer-down select the same line for the same pointer and line list.
C18_HitTest ==
  [][ LET picked == Picked(gridLines, lastEvent'.x, lastEvent'.y)
      IN /\ lastEvent'.kind = "move" => hoveredLine' = picked
         /\ lastEvent'.kind = "down" =>
              activeLine' = IF picked = NoLine THEN activeLine ELSE picked ]_vars

\* a pointer-down at the same minimum distance from two lines took the lower
\* index
C18_Witness ==
  /\ lastEvent.kind = "down"
  /\ activeLine # null
  /\ activeLine < Len(gridLines)
  /\ \E j \in Near(gridLines, lastEvent.x, lastEvent.y) :
       /\ j > activeLine
       /\ Distance(gridLines[j + 1], lastEvent.x, lastEvent.y)
            = Distance(gridLines[activeLine + 1], lastEvent.x, lastEvent.y)
  /\ activeLine = Picked(gridLines, lastEvent.x, lastEvent.y)

\* C19: while a drag is active the active index is an index of the current
\* line list, and as long as the index is kept it names a line of the axis it
\* named before, also across a change of rows or columns.
C19_ActiveLineValid ==
  /\ [](activeLine # null => activeLine \in 0..(Len(gridLines) - 1))
  /\ [][ (/\ activeLine # null
          /\ activeLine' = activeLine
          /\ activeLine < Len(gridLines)
          /\ activeLine < Len(gridLines'))
         => gridLines'[activeLine + 1].isHorizontal
              = gridLines[activeLine + 1].isHorizontal ]_vars

\* ---- the server route
\* the request names an image and a positive integer for rows and for columns
ValidRequest(c) ==
  /\ c.hasImage
  /\ c.rows.numeric /\ c.rows.n >= 1
  /\ c.columns.numeric /\ c.columns.n >= 1

\* C13: the route answers a request whose image is missing or whose rows or
\* columns is zero, negative or not a number with the input error (400), and
\* never with a success response.
C13_InvalidRejected ==
  (call.fn = "POST" /\ ~ValidRequest(call) /\ pc = "done")
    => /\ response.status = 400
       /\ response.body = << >>

\* C20: the archive is generated only when no extraction is pending, and in
\* whatever order the extractions completed the archive of an r x c request
\* has r * c entries, the cell at (row, col) under image_(row * c + col + 1).
C20_JoinBeforeArchive ==
  /\ [][ (pc = "extracting" /\ response'.status = 200) => pending = {} ]_vars
  /\ [](Answered =>
         LET c == parseInt(call.columns)[1]
         IN /\ Cardinality(DOMAIN response.body) = Len(drawn)
            /\ Len(drawn) = parseInt(call.rows)[1] * c
            /\ \A k \in 1..Len(drawn) :
                 LET cell == drawn[k]
                     name == << "image_", cell.row * c + cell.col + 1, ".png" >>
                 IN /\ name \in DOMAIN response.body
                    /\ response.body[name].bytes[1].left = cell.left
                    /\ response.body[name].bytes[1].top = cell.top)

\* a 3 x 2 request was answered with its six entries
C20_Witness ==
  /\ Answered
  /\ parseInt(call.rows)[1] = 3
  /\ parseInt(call.columns)[1] = 2
  /\ pending = {}
  /\ Cardinality(DOMAIN response.body) = 6

\* ---- the page: cuts, fallback, failures
\* C11: every client-side cut that succeeds stores exactly rows * columns
\* images, for the rows and columns the grid controls showed when the cut was
\* triggered, on the custom-grid-lines path and on the rows/columns path.
C11_CutCountMatchesControls ==
  [][ lastEvent'.kind = "cutResolved"
      => Len(gridImages') = op.rows * op.columns ]_vars

\* the bounds a cut is to use for the image it cuts
BoundsOf(url) == [width |-> Images[url][1], height |-> Images[url][2]]

\* C16: the grid state of an image is discarded when a new image is loaded: a
\* client-side cut that goes along grid lines uses the bounds of the image
\* it cuts and lines inside these bounds, never those of the previous image,
\* also when it is triggered before the canvas has loaded the new image.
C16_NoStaleGridState ==
  [][ (lastEvent'.kind \in {"cut", "serverCut"}
       /\ Len(op'.gridLines) > 0
       /\ op'.imageSize.width > 0 /\ op'.imageSize.height > 0)
      => /\ op'.imageSize = BoundsOf(op'.url)
         /\ \A k \in 1..Len(op'.gridLines) :
              op'.gridLines[k].position <=
                (IF op'.gridLines[k].isHorizontal
                   THEN BoundsOf(op'.url).height
                   ELSE BoundsOf(op'.url).width) * Scale ]_vars

\* C12: when the request to the server fails or is answered with a
\* non-success status, the client-side cut is run from the start on the same
\* image with what the click saw, and when it succeeds all its images are
\* stored and the download is made available.
C12_FallbackToClient ==
  /\ [][ (op.state = "server" /\ lastEvent'.kind = "serverFailed")
         => /\ op'.state = "client"
            /\ op'.fallback
            /\ op'.url = op.url
            /\ Images[op'.url] = << call.width, call.height >>
            /\ isProcessing' ]_vars
  /\ [][ (op.state = "server" /\ op'.state = "none")
         => (pc = "done" /\ response.status = 200) ]_vars
  /\ [][ (lastEvent'.kind = "cutResolved" /\ op.fallback)
         => /\ gridImages' = CutImages(op)
            /\ Len(gridImages') > 0
            /\ downloadReady'
            /\ ~isProcessing' ]_vars

\* after a non-success answer of the route the fallback stored its images
C12_Witness ==
  /\ lastEvent = Event("cutResolved", 1, 0)
  /\ Len(gridImages) > 0
  /\ downloadReady
  /\ ~isProcessing

\* C14: extraction is all-or-nothing.  A client-side cut that fails leaves the
\* stored images and the download-ready flag as they were when it was
\* triggered, and triggering it changes neither; a route that fails at a cell
\* answers with an error and no archive body, whatever the zip holds by then.
C14_AllOrNothing ==
  /\ [][ lastEvent'.kind \in {"cut", "serverCut", "serverFailed", "cutRejected"}
         => /\ gridImages' = gridImages
            /\ downloadReady' = downloadReady ]_vars
  /\ [][ (pc = "extracting" /\ pending # {} /\ pc' = "done")
         => /\ response'.status \notin {0, 200}
            /\ response'.error # ""
            /\ response'.body = << >> ]_vars
  /\ [](response.status # 200 => response.body = << >>)

\* a cut failed while the images of an earlier cut were stored
C14_Witness ==
  /\ lastEvent.kind = "cutRejected"
  /\ alert = CutFailedAlert
  /\ Len(gridImages) > 0
  /\ downloadReady

\* the route failed at a cell after other cells were added to the zip
C14_WitnessRoute ==
  /\ pc = "done"
  /\ response.status = 500
  /\ zip # << >>
  /\ pending # {}

\* C15: a failure of the archive generation after the extraction succeeded is
\* reported with another outcome than a failure of the extraction: on the
\* client another alert than the one of a failed cut, on the server another
\* response than the one of a failed extraction.
C15_DistinctFailureOutcome ==
  /\ [][ lastEvent'.kind = "cutRejected" => alert' = CutFailedAlert ]_vars
  /\ [][ lastEvent'.kind = "downloadFailed"
         => (alert' # "" /\ alert' # CutFailedAlert) ]_vars
  /\ [][ (pc = "extracting" /\ pending # {} /\ pc' = "done")
         => response' = CatchResponse ]_vars
  /\ [][ (pc = "extracting" /\ pending = {} /\ pc' = "done"
          /\ response'.status # 200)
         => response' # CatchResponse ]_vars

\* ---- observer, cursor
\* a drag is active on a line of the canvas
Dragging == activeLine # null /\ activeLine < Len(gridLines)

\* C21: after every pointer-move that updates a dragged line the page holds
\* the full line set and the image bounds of the canvas, so that the cut
\* handleClientSideCut would make goes along the positions the canvas shows.
C21_ObserverInSync ==
  (lastEvent.kind = "move" /\ Dragging)
    => /\ homeGridLines = gridLines
       /\ homeImageSize = imageSize
       /\ ClientCutRects = CutRects(gridLines, imageSize.width, imageSize.height)

\* a drag moved a line after Reset Grid had set the page's lines apart from
\* the canvas lines: the page holds the canvas lines again
C21_Witness ==
  /\ lastEvent.kind = "move"
  /\ Dragging
  /\ Cardinality(CustomLines) >= 2
  /\ homeGridLines = gridLines
  /\ homeImageSize = imageSize

\* C22: after every pointer-move during a drag the cursor is the resize cursor
\* of the dragged line's axis, however far the pointer moved and whichever
\* line it is near; without a drag it is the resize cursor of the hovered
\* line's axis, or the default cursor when no line is within the threshold.
C22_CursorFollowsDrag ==
  [][ lastEvent'.kind = "move"
      => IF Dragging
           THEN cursor' = (IF gridLines[activeLine + 1].isHorizontal
                             THEN "ns-resize" ELSE "ew-resize")
           ELSE /\ hoveredLine' = NoLine => cursor' = "default"
                /\ hoveredLine' # NoLine =>
                     cursor' = (IF gridLines'[hoveredLine' + 1].isHorizontal
                                  THEN "ns-resize" ELSE "ew-resize") ]_vars

\* ---- coincident lines
\* the call is a resolved cut of a 3-row by 2-column grid whose two
\* horizontal lines were dragged to the same y
CoincidentRows ==
  /\ CutResolved
  /\ AxisCount(TRUE) = 2
  /\ AxisCount(FALSE) = 1
  /\ AxisPositions(call.gridLines, TRUE)[1] = AxisPositions(call.gridLines, TRUE)[2]

\* the rectangles of the cut with height zero
ZeroHeight == { k \in 1..Len(drawn) : drawn[k].height = 0 }

\* C24 as stated: with the two horizontal lines of a 3 x 2 grid at the same y
\* the cut yields 6 rectangles, exactly two of them with height zero (the
\* middle row) and none with a negative height.
C24_CoincidentRows ==
  CoincidentRows =>
    /\ Len(drawn) = 6
    /\ Len(images) = 6
    /\ ZeroHeight = {3, 4}
    /\ \A k \in 1..Len(drawn) : drawn[k].height >= 0

\* C24 amended: the same, for a common y strictly between 0 and the image
\* height; for every y there are 6 rectangles, none with a negative height,
\* and the middle row has height zero.
C24_CoincidentRowsInterior ==
  CoincidentRows =>
    LET y == AxisPositions(call.gridLines, TRUE)[1]
    IN /\ Len(drawn) = 6
       /\ Len(images) = 6
       /\ \A k \in 1..Len(drawn) : drawn[k].height >= 0
       /\ {3, 4} \subseteq ZeroHeight
       /\ (0 < y /\ y < call.imageHeight * Scale) => ZeroHeight = {3, 4}

\* a resolved cut with both horizontal lines at y = 100 of a 300 x 240 image
C24_Witness ==
  /\ CoincidentRows
  /\ call.imageHeight = 240
  /\ AxisPositions(call.gridLines, TRUE)[1] = 100 * Scale
  /\ ZeroHeight = {3, 4}
  /\ images[3].mime = ""

\* ---- the download offer, one cut at a time
\* C25: the download is offered only for cells of the image that is loaded: a
\* cut that completes while an image is loaded was started on that image, and
\* an upload or "Upload Different Image" withdraws the offer and the cells.
C25_CellsOfLoadedImage ==
  /\ [][ (lastEvent'.kind = "cutResolved" /\ imageUrl' # 0)
         => op.url = imageUrl' ]_vars
  /\ [][ lastEvent'.kind \in {"upload", "reset"}
         => (~downloadReady' /\ gridImages' = << >>) ]_vars

\* C26: downloadReady is true only while the stored list of cell images is
\* not empty.
C26_ReadyImpliesImages == downloadReady => Len(gridImages) > 0

\* the download is offered for the 6 cells of a cut of the loaded image
C26_Witness ==
  /\ downloadReady
  /\ imageUrl # 0
  /\ imageLoaded
  /\ Len(gridImages) = 6
  /\ lastEvent = Event("cutResolved", 0, 0)

\* C27: at most one extraction is in flight.  The processing flag is true
\* exactly while a cut (client, server, or the fallback of the server cut)
\* runs, a cut is started only with the flag false and nothing running, the
\* fallback continues the server cut with the flag kept true, and the route
\* works only for the server cut in flight.
C27_OneCutAtATime ==
  /\ [](isProcessing <=> op.state # "none")
  /\ [](pc # "idle" => (op.state = "server" /\ isProcessing))
  /\ [][ (op'.state \in {"client", "server"} /\ op'.state # op.state)
         => \/ (~isProcessing /\ op.state = "none" /\ pc = "idle")
            \/ (op.state = "server" /\ op'.state = "client" /\ op'.fallback
                  /\ isProcessing /\ isProcessing') ]_vars

\* the fallback of a failed server cut is running, the flag is still true
C27_Witness ==
  /\ isProcessing
  /\ op.state = "client"
  /\ op.fallback
  /\ pc = "idle"
  /\ lastEvent.kind = "serverFailed"

\* ---- termination
\* C23: every cut that is started ends, and the processing flag returns to
\* false, also when the image fails to load, no drawing context is got, or
\* drawing or encoding a cell fails.
C23_CutsEnd == isProcessing ~> ~isProcessing

====
